---- MODULE Spec2Model ----
(***************************************************************************)
(* A model of the epoll event loop of src/src/event_loop.rs: one reactor   *)
(* thread executing run(), producer threads executing call() and stop(),   *)
(* the pending_calls mutex, the eventfd wakeup counter and the stop flag.  *)
(* Every step of a thread is one atomic access to shared state.            *)
(***************************************************************************)
EXTENDS Integers, Sequences, FiniteSets, TLC

\* Bounds of the model.
MaxCalls == 3      \* closures whose identity is tracked (1..MaxCalls)
MaxStops == 2      \* stop() calls made by producer threads
EventfdMax == 2    \* stands for the eventfd's maximum counter value, 2^64 - 2

Producers == {"p1", "p2"}

\* Descriptor numbers: the epoll instance and the eventfd made by new(), and
\* one foreign descriptor.
EpollFd == 3
WakeupFd == 4
RegFds == {5}

\* What a pending call does when invoked.
\*   plain : returns;            stop  : calls self.stop();
\*   sched : calls self.call(a plain closure);
\*   tick  : calls self.call(its own successor), forever rescheduling;
\*   panic : panics.
Kinds == {"plain", "stop", "sched", "tick", "panic"}

VARIABLES
    stop,            \* EpollEventLoop.stop (AtomicBool)
    counter,         \* the kernel counter of wakeup_fd (eventfd)
    pending_calls,   \* EpollEventLoop.pending_calls: ids, front first
    lock,            \* holder of the pending_calls mutex
    rpc,             \* position of the thread executing run()
    events,          \* single_loop: what epoll_wait reported
    index,           \* single_loop: the for loop's index (1-based)
    this_call,       \* handle_wakeup_fd: the popped call, <<>> when none
    ppc,             \* position of each producer thread
    parg,            \* the closure kind a producer is passing to call()
    kinds,           \* history: kind of the i-th closure appended
    executed,        \* history: ids in the order they were invoked
    ncalls,          \* tracked closures reserved so far (bookkeeping)
    nstops,          \* stop() calls begun by producers (bookkeeping)
    fd_data,         \* EpollEventLoop.fd_data: descriptors with a handler
    epoll_set,       \* descriptors registered with epoll_fd
    ready,           \* foreign descriptors that are readable
    on_event_calls,  \* descriptors whose on_event handler was invoked
    wait_result,     \* single_loop: result of the last epoll_wait
    npc,             \* position of new()
    new_result,      \* what new() returned: "ok", an errno, "none" before
    fd_open,         \* descriptors this process holds open
    fd_closes        \* how many times each descriptor was closed

vars == <<stop, counter, pending_calls, lock, rpc, events, index, this_call,
          ppc, parg, kinds, executed, ncalls, nstops, fd_data, epoll_set,
          ready, on_event_calls, wait_result, npc, new_result, fd_open,
          fd_closes>>

shared == <<stop, counter, pending_calls, lock>>
reactor == <<rpc, events, index, this_call>>
producer == <<ppc, parg, nstops>>
history == <<kinds, executed, ncalls>>
fdtable == <<fd_data, epoll_set, ready, on_event_calls>>
ctor == <<npc, new_result, fd_open, fd_closes>>

Range(s) == {s[i] : i \in 1..Len(s)}

\* Id 0 is an untracked successor of a tick closure.
KindOf(id) == IF id = 0 THEN "tick" ELSE kinds[id]

\* Tracked closures a call(kind) will append: itself, and a sched's child.
Cost(k) == IF k = "sched" THEN 2 ELSE 1

-----------------------------------------------------------------------------
\* new(): the state after successful construction.
Init ==
    /\ stop = FALSE
    /\ counter = 0
    /\ pending_calls = <<>>
    /\ lock = "free"
    /\ rpc = "idle"
    /\ events = <<>>
    /\ index = 1
    /\ this_call = <<>>
    /\ ppc = [p \in Producers |-> "idle"]
    /\ parg = [p \in Producers |-> "plain"]
    /\ kinds = <<>>
    /\ executed = <<>>
    /\ ncalls = 0
    /\ nstops = 0
    /\ fd_data = {}
    /\ epoll_set = {WakeupFd}
    /\ ready = {}
    /\ on_event_calls = <<>>
    /\ wait_result = "none"
    /\ npc = "returned"
    /\ new_result = "ok"
    /\ fd_open = {EpollFd, WakeupFd}
    /\ fd_closes = [fd \in {EpollFd, WakeupFd} |-> 0]

-----------------------------------------------------------------------------
\* new(): the three acquisition steps.  Each system call either succeeds or
\* fails with an errno (NixError::Sys), which try! returns to the caller; the
\* WrappedFd locals made so far are then dropped, last made first.

Errnos == {"EMFILE", "ENOMEM"}

\* The state in which new() is called.
InitNew ==
    /\ stop = FALSE
    /\ counter = 0
    /\ pending_calls = <<>>
    /\ lock = "free"
    /\ rpc = "idle"
    /\ events = <<>>
    /\ index = 1
    /\ this_call = <<>>
    /\ ppc = [p \in Producers |-> "idle"]
    /\ parg = [p \in Producers |-> "plain"]
    /\ kinds = <<>>
    /\ executed = <<>>
    /\ ncalls = 0
    /\ nstops = 0
    /\ fd_data = {}
    /\ epoll_set = {}
    /\ ready = {}
    /\ on_event_calls = <<>>
    /\ wait_result = "none"
    /\ npc = "epoll_create"
    /\ new_result = "none"
    /\ fd_open = {}
    /\ fd_closes = [fd \in {EpollFd, WakeupFd} |-> 0]

loop == <<shared, reactor, producer, history, fd_data, ready, on_event_calls, wait_result>>

\* Drop for WrappedFd: libc::close(self.fd).
CloseLeaks(open, closes, fd) == <<open, closes>>
Close(open, closes, fd) == <<open \ {fd}, [closes EXCEPT ![fd] = @ + 1]>>

\* epoll_create(); nothing is held yet when it fails.
NewEpollCreate ==
    /\ npc = "epoll_create"
    /\ \/ /\ fd_open' = fd_open \cup {EpollFd}
          /\ npc' = "eventfd"
          /\ UNCHANGED new_result
       \/ \E e \in Errnos :
              /\ new_result' = e
              /\ npc' = "returned"
              /\ UNCHANGED fd_open
    /\ UNCHANGED <<loop, epoll_set, fd_closes>>

\* eventfd(0, EFD_NONBLOCK); epoll_fd is dropped when it fails.
NewEventfd ==
    /\ npc = "eventfd"
    /\ \/ /\ fd_open' = fd_open \cup {WakeupFd}
          /\ npc' = "epoll_ctl"
          /\ UNCHANGED new_result
       \/ \E e \in Errnos :
              /\ new_result' = e
              /\ npc' = "drop_epoll_fd"
              /\ UNCHANGED fd_open
    /\ UNCHANGED <<loop, epoll_set, fd_closes>>

\* epoll_ctl(EpollCtlAdd, wakeup_fd); on success new() returns the loop,
\* which takes both descriptors; on failure both locals are dropped.
NewEpollCtl ==
    /\ npc = "epoll_ctl"
    /\ \/ /\ epoll_set' = epoll_set \cup {WakeupFd}
          /\ new_result' = "ok"
          /\ npc' = "returned"
       \/ \E e \in Errnos :
              /\ new_result' = e
              /\ npc' = "drop_wakeup_fd"
              /\ UNCHANGED epoll_set
    /\ UNCHANGED <<loop, fd_open, fd_closes>>

DropWakeupFd ==
    /\ npc = "drop_wakeup_fd"
    /\ fd_open' = Close(fd_open, fd_closes, WakeupFd)[1]
    /\ fd_closes' = Close(fd_open, fd_closes, WakeupFd)[2]
    /\ npc' = "drop_epoll_fd"
    /\ UNCHANGED <<loop, epoll_set, new_result>>

DropEpollFd ==
    /\ npc = "drop_epoll_fd"
    /\ fd_open' = Close(fd_open, fd_closes, EpollFd)[1]
    /\ fd_closes' = Close(fd_open, fd_closes, EpollFd)[2]
    /\ npc' = "returned"
    /\ UNCHANGED <<loop, epoll_set, new_result>>

-----------------------------------------------------------------------------
\* The kernel objects.

\* write(wakeup_fd, 1): adds one; at the maximum it fails with EAGAIN, which
\* wakeup() ignores, and the counter keeps its value.
EventfdWriteLost(c) == c
EventfdWrite(c) == IF c < EventfdMax THEN c + 1 ELSE c

\* wakeup(): what the write returns, and the test that panics on every
\* error but EAGAIN.
WriteResult(c) == IF c < EventfdMax THEN "ok" ELSE "EAGAIN"

WakeupPanicsOnAnyError(res) == res # "ok"
WakeupPanics(res) == res \notin {"ok", "EAGAIN"}

\* read(wakeup_fd): resets the counter (EAGAIN at zero; the result is unused).
EventfdReadDecrements(c) == c - 1
EventfdRead(c) == 0

\* epoll_wait(epoll_fd, events, 0): returns at once with the registered
\* descriptors that are readable now, in an order the kernel chooses.
ReadyFds == (IF counter > 0 THEN {WakeupFd} ELSE {}) \cup (ready \cap epoll_set)

Orderings(S) ==
    {s \in [1..Cardinality(S) -> S] : \A i, j \in 1..Cardinality(S) : s[i] = s[j] => i = j}

\* VecDeque::pop_front / push_back.
PopBack(q) == <<q[Len(q)], SubSeq(q, 1, Len(q) - 1)>>
PopFront(q) == <<Head(q), Tail(q)>>

PushFront(q, c) == <<c>> \o q
PushBack(q, c) == Append(q, c)

-----------------------------------------------------------------------------
\* Producer threads: call(func).

\* pending_calls.lock(), with the closure to pass chosen.
CallLock(p, k) ==
    /\ ppc[p] = "idle"
    /\ ncalls + Cost(k) <= MaxCalls
    /\ lock = "free"
    /\ lock' = p
    /\ ppc' = [ppc EXCEPT ![p] = "call_push"]
    /\ parg' = [parg EXCEPT ![p] = k]
    /\ ncalls' = ncalls + Cost(k)
    /\ UNCHANGED <<stop, counter, pending_calls, reactor, nstops, kinds, executed, fdtable, wait_result, ctor>>

\* push_back(Box::new(func)): func is moved into the queue and the guard is
\* dropped at the end of the statement.
CallPushRunsInline(p) ==
    /\ ppc[p] = "call_push"
    /\ lock = p
    /\ kinds' = Append(kinds, parg[p])
    /\ executed' = Append(executed, Len(kinds) + 1)
    /\ lock' = "free"
    /\ ppc' = [ppc EXCEPT ![p] = "call_wake"]
    /\ parg' = [parg EXCEPT ![p] = "plain"]
    /\ UNCHANGED <<stop, counter, pending_calls, reactor, nstops, ncalls, fdtable, wait_result, ctor>>

CallPush(p) ==
    /\ ppc[p] = "call_push"
    /\ lock = p
    /\ pending_calls' = PushBack(pending_calls, Len(kinds) + 1)
    /\ kinds' = Append(kinds, parg[p])
    /\ lock' = "free"
    /\ ppc' = [ppc EXCEPT ![p] = "call_wake"]
    /\ parg' = [parg EXCEPT ![p] = "plain"]
    /\ UNCHANGED <<stop, counter, reactor, nstops, executed, ncalls, fdtable, wait_result, ctor>>

\* self.wakeup() at the end of call().
CallWakeup(p) ==
    /\ ppc[p] = "call_wake"
    /\ counter' = EventfdWrite(counter)
    /\ ppc' = [ppc EXCEPT ![p] =
                 IF WakeupPanics(WriteResult(counter)) THEN "panicked" ELSE "idle"]
    /\ UNCHANGED <<stop, pending_calls, lock, reactor, parg, nstops, history, fdtable, wait_result, ctor>>

\* Producer threads: stop().  The value stop() stores in the flag.
StopValueToggled(old) == ~old
StopValue(old) == TRUE

StopStore(p) ==
    /\ ppc[p] = "idle"
    /\ nstops < MaxStops
    /\ stop' = StopValue(stop)
    /\ nstops' = nstops + 1
    /\ ppc' = [ppc EXCEPT ![p] = "stop_wake"]
    /\ UNCHANGED <<counter, pending_calls, lock, reactor, parg, history, fdtable, wait_result, ctor>>

\* self.wakeup() at the end of stop().
StopWakeup(p) ==
    /\ ppc[p] = "stop_wake"
    /\ counter' = EventfdWrite(counter)
    /\ ppc' = [ppc EXCEPT ![p] =
                 IF WakeupPanics(WriteResult(counter)) THEN "panicked" ELSE "idle"]
    /\ UNCHANGED <<stop, pending_calls, lock, reactor, parg, nstops, history, fdtable, wait_result, ctor>>

-----------------------------------------------------------------------------
\* The reactor thread: run().

RunEnter ==
    /\ rpc = "idle"
    /\ rpc' = "top"
    /\ UNCHANGED <<shared, events, index, this_call, producer, history, fdtable, wait_result, ctor>>

\* run() called again after it returned.
ReRunResets ==
    /\ rpc = "done"
    /\ rpc' = "top"
    /\ stop' = FALSE
    /\ UNCHANGED <<counter, pending_calls, lock, events, index, this_call, producer, history, fdtable, wait_result, ctor>>

ReRun ==
    /\ rpc = "done"
    /\ rpc' = "top"
    /\ UNCHANGED <<shared, events, index, this_call, producer, history, fdtable, wait_result, ctor>>

\* while ! self.should_stop()
LoopTopIgnoresStop ==
    /\ rpc = "top"
    /\ rpc' = "wait"
    /\ UNCHANGED <<shared, events, index, this_call, producer, history, fdtable, wait_result, ctor>>

LoopTopResets ==
    /\ rpc = "top"
    /\ rpc' = IF stop THEN "done" ELSE "wait"
    /\ stop' = FALSE
    /\ UNCHANGED <<counter, pending_calls, lock, events, index, this_call, producer, history, fdtable, wait_result, ctor>>

LoopTop ==
    /\ rpc = "top"
    /\ rpc' = IF stop THEN "done" ELSE "wait"
    /\ UNCHANGED <<shared, events, index, this_call, producer, history, fdtable, wait_result, ctor>>

\* single_loop: epoll_wait with a timeout of 0 returns Ok(number_of_events).
Wait ==
    /\ rpc = "wait"
    /\ \E evs \in Orderings(ReadyFds) : events' = evs
    /\ index' = 1
    /\ rpc' = "for"
    /\ wait_result' = "ok"
    /\ UNCHANGED <<shared, this_call, producer, history, fdtable, ctor>>

\* single_loop: epoll_wait fails with EINTR and single_loop returns.
WaitEintrPanics ==
    /\ rpc = "wait"
    /\ rpc' = "fatal"
    /\ UNCHANGED <<shared, events, index, this_call, producer, history, fdtable, wait_result, ctor>>

WaitEintr ==
    /\ rpc = "wait"
    /\ rpc' = "top"
    /\ UNCHANGED <<shared, events, index, this_call, producer, history, fdtable, wait_result, ctor>>

\* single_loop: epoll_wait fails with another errno and single_loop panics;
\* the panic unwinds run().
FatalErrnos == {"EBADF", "EINVAL"}

WaitFatalReturns ==
    /\ rpc = "wait"
    /\ \E e \in FatalErrnos : wait_result' = e
    /\ rpc' = "top"
    /\ UNCHANGED <<shared, events, index, this_call, producer, history, fdtable, ctor>>

WaitFatal ==
    /\ rpc = "wait"
    /\ \E e \in FatalErrnos : wait_result' = e
    /\ rpc' = "fatal"
    /\ UNCHANGED <<shared, events, index, this_call, producer, history, fdtable, ctor>>

\* single_loop: the for loop is over and single_loop returns to run().
SingleLoopReturn ==
    /\ rpc = "for"
    /\ index > Len(events)
    /\ rpc' = "top"
    /\ events' = <<>>
    /\ index' = 1
    /\ wait_result' = "none"
    /\ UNCHANGED <<shared, this_call, producer, history, fdtable, ctor>>

\* single_loop: an event of the wakeup descriptor calls handle_wakeup_fd.
DispatchWakeup ==
    /\ rpc = "for"
    /\ index <= Len(events)
    /\ events[index] = WakeupFd
    /\ index' = index + 1
    /\ rpc' = "h_lock"
    /\ UNCHANGED <<shared, events, this_call, producer, history, fdtable, wait_result, ctor>>

\* single_loop: the else branch for any other descriptor is empty.
DispatchOther ==
    /\ rpc = "for"
    /\ index <= Len(events)
    /\ events[index] # WakeupFd
    /\ index' = index + 1
    /\ UNCHANGED <<shared, rpc, events, this_call, producer, history, fdtable, wait_result, ctor>>

\* handle_wakeup_fd: self.pending_calls.lock()
HLock ==
    /\ rpc = "h_lock"
    /\ lock = "free"
    /\ lock' = "reactor"
    /\ rpc' = "h_pop"
    /\ UNCHANGED <<stop, counter, pending_calls, events, index, this_call, producer, history, fdtable, wait_result, ctor>>

\* handle_wakeup_fd: pop_front(); Some(c) leaves the block, dropping the guard.
HPopKeepsLock ==
    /\ rpc = "h_pop"
    /\ IF pending_calls = <<>>
       THEN /\ rpc' = "h_read"
            /\ lock' = lock
            /\ UNCHANGED <<pending_calls, this_call>>
       ELSE /\ this_call' = <<PopFront(pending_calls)[1]>>
            /\ pending_calls' = PopFront(pending_calls)[2]
            /\ lock' = lock
            /\ rpc' = "invoke"
    /\ UNCHANGED <<stop, counter, events, index, producer, history, fdtable, wait_result, ctor>>

HPopUnlocksBeforeRead ==
    /\ rpc = "h_pop"
    /\ IF pending_calls = <<>>
       THEN /\ rpc' = "h_read"
            /\ lock' = "free"
            /\ UNCHANGED <<pending_calls, this_call>>
       ELSE /\ this_call' = <<PopFront(pending_calls)[1]>>
            /\ pending_calls' = PopFront(pending_calls)[2]
            /\ lock' = "free"
            /\ rpc' = "invoke"
    /\ UNCHANGED <<stop, counter, events, index, producer, history, fdtable, wait_result, ctor>>

HPopChecksStop ==
    /\ rpc = "h_pop"
    /\ IF pending_calls = <<>> \/ stop
       THEN /\ rpc' = "h_read"
            /\ lock' = lock
            /\ UNCHANGED <<pending_calls, this_call>>
       ELSE /\ this_call' = <<PopFront(pending_calls)[1]>>
            /\ pending_calls' = PopFront(pending_calls)[2]
            /\ lock' = "free"
            /\ rpc' = "invoke"
    /\ UNCHANGED <<stop, counter, events, index, producer, history, fdtable, wait_result, ctor>>

HPop ==
    /\ rpc = "h_pop"
    /\ IF pending_calls = <<>>
       THEN /\ rpc' = "h_read"
            /\ UNCHANGED <<pending_calls, lock, this_call>>
       ELSE /\ this_call' = <<PopFront(pending_calls)[1]>>
            /\ pending_calls' = PopFront(pending_calls)[2]
            /\ lock' = "free"
            /\ rpc' = "invoke"
    /\ UNCHANGED <<stop, counter, events, index, producer, history, fdtable, wait_result, ctor>>

\* handle_wakeup_fd: None reads the eventfd under the lock and breaks.
HRead ==
    /\ rpc = "h_read"
    /\ counter' = EventfdRead(counter)
    /\ lock' = "free"
    /\ rpc' = "for"
    /\ UNCHANGED <<stop, pending_calls, events, index, this_call, producer, history, fdtable, wait_result, ctor>>

\* this_call() is invoked: the history records it.
Invoked(id) == IF id = 0 THEN executed ELSE Append(executed, id)

InvokePlain ==
    /\ rpc = "invoke"
    /\ KindOf(this_call[1]) = "plain"
    /\ executed' = Invoked(this_call[1])
    /\ rpc' = "h_lock"
    /\ this_call' = <<>>
    /\ UNCHANGED <<shared, events, index, producer, kinds, ncalls, fdtable, wait_result, ctor>>

\* A closure calling self.stop(): the store, then the wakeup (RWakeup).
InvokeStop ==
    /\ rpc = "invoke"
    /\ KindOf(this_call[1]) = "stop"
    /\ executed' = Invoked(this_call[1])
    /\ stop' = StopValue(stop)
    /\ rpc' = "c_wake"
    /\ UNCHANGED <<counter, pending_calls, lock, events, index, this_call, producer, kinds, ncalls, fdtable, wait_result, ctor>>

\* A closure calling self.call(..): it goes on to take the lock (RCallLock).
InvokeSched ==
    /\ rpc = "invoke"
    /\ KindOf(this_call[1]) = "sched"
    /\ executed' = Invoked(this_call[1])
    /\ rpc' = "c_lock"
    /\ UNCHANGED <<shared, events, index, this_call, producer, kinds, ncalls, fdtable, wait_result, ctor>>

InvokeTick ==
    /\ rpc = "invoke"
    /\ KindOf(this_call[1]) = "tick"
    /\ executed' = Invoked(this_call[1])
    /\ rpc' = "c_lock"
    /\ UNCHANGED <<shared, events, index, this_call, producer, kinds, ncalls, fdtable, wait_result, ctor>>

\* A closure that panics: the panic unwinds handle_wakeup_fd, single_loop
\* and run(), none of which catches it.
InvokePanic ==
    /\ rpc = "invoke"
    /\ KindOf(this_call[1]) = "panic"
    /\ executed' = Invoked(this_call[1])
    /\ rpc' = "panicked"
    /\ UNCHANGED <<shared, events, index, this_call, producer, kinds, ncalls, fdtable, wait_result, ctor>>

\* call() on the reactor thread, from inside a pending call.
RCallLock ==
    /\ rpc = "c_lock"
    /\ lock = "free"
    /\ lock' = "reactor"
    /\ rpc' = "c_push"
    /\ UNCHANGED <<stop, counter, pending_calls, events, index, this_call, producer, history, fdtable, wait_result, ctor>>

RCallPush ==
    /\ rpc = "c_push"
    /\ lock = "reactor"
    /\ IF KindOf(this_call[1]) = "sched"
       THEN /\ pending_calls' = PushBack(pending_calls, Len(kinds) + 1)
            /\ kinds' = Append(kinds, "plain")
       ELSE /\ pending_calls' = PushBack(pending_calls, 0)
            /\ kinds' = kinds
    /\ lock' = "free"
    /\ rpc' = "c_wake"
    /\ UNCHANGED <<stop, counter, events, index, this_call, producer, executed, ncalls, fdtable, wait_result, ctor>>

\* wakeup() on the reactor thread, ending the closure's stop() or call();
\* the closure returns and handle_wakeup_fd loops.
RWakeup ==
    /\ rpc = "c_wake"
    /\ counter' = EventfdWrite(counter)
    /\ rpc' = IF WakeupPanics(WriteResult(counter)) THEN "panicked" ELSE "h_lock"
    /\ this_call' = <<>>
    /\ UNCHANGED <<stop, pending_calls, lock, events, index, producer, history, fdtable, wait_result, ctor>>

-----------------------------------------------------------------------------
\* The registration table's register operation and a foreign descriptor
\* becoming readable.
Register(fd) ==
    /\ fd \in RegFds
    /\ fd \notin fd_data
    /\ fd_data' = fd_data \cup {fd}
    /\ epoll_set' = epoll_set \cup {fd}
    /\ UNCHANGED <<shared, reactor, producer, history, ready, on_event_calls, wait_result, ctor>>

FdReadable(fd) ==
    /\ fd \in RegFds
    /\ fd \notin ready
    /\ ready' = ready \cup {fd}
    /\ UNCHANGED <<shared, reactor, producer, history, fd_data, epoll_set, on_event_calls, wait_result, ctor>>

-----------------------------------------------------------------------------
\* Specifications.

\* The loop of run() with closures that return, stop or schedule.
ReactorLoop ==
    \/ RunEnter
    \/ LoopTop
    \/ Wait
    \/ SingleLoopReturn
    \/ DispatchWakeup
    \/ HLock
    \/ HPop
    \/ HRead
    \/ InvokePlain
    \/ InvokeStop
    \/ RWakeup

NestedCall ==
    \/ InvokeSched
    \/ RCallLock
    \/ RCallPush

CallRest(p) ==
    \/ CallPush(p)
    \/ CallWakeup(p)

\* Every behaviour: all closure kinds, stop() from producers, run() re-entered.
Next ==
    \/ ReactorLoop
    \/ NestedCall
    \/ InvokeTick
    \/ InvokePanic
    \/ ReRun
    \/ \E p \in Producers : \E k \in Kinds : CallLock(p, k)
    \/ \E p \in Producers : CallRest(p)
    \/ \E p \in Producers : StopStore(p)
    \/ \E p \in Producers : StopWakeup(p)

Spec == Init /\ [][Next]_vars

\* Closures that return, call stop() or call call(), under fair scheduling:
\* the reactor thread keeps running, and a producer that began call() or
\* stop() finishes it.  Producers are not obliged to begin anything.
NextLive ==
    \/ ReactorLoop
    \/ NestedCall
    \/ \E p \in Producers : \E k \in {"plain", "stop", "sched"} : CallLock(p, k)
    \/ \E p \in Producers : CallRest(p)
    \/ \E p \in Producers : StopStore(p)
    \/ \E p \in Producers : StopWakeup(p)

LiveSpec ==
    /\ Init
    /\ [][NextLive]_vars
    /\ WF_vars(ReactorLoop \/ NestedCall)
    /\ \A p \in Producers : WF_vars(CallRest(p) \/ StopWakeup(p))

\* Every closure kind, under the same fair scheduling.
NextFair ==
    \/ ReactorLoop
    \/ NestedCall
    \/ InvokeTick
    \/ InvokePanic
    \/ \E p \in Producers : \E k \in Kinds : CallLock(p, k)
    \/ \E p \in Producers : CallRest(p)
    \/ \E p \in Producers : StopStore(p)
    \/ \E p \in Producers : StopWakeup(p)

FairSpec ==
    /\ Init
    /\ [][NextFair]_vars
    /\ WF_vars(ReactorLoop \/ NestedCall \/ InvokeTick \/ InvokePanic)
    /\ \A p \in Producers : WF_vars(CallRest(p) \/ StopWakeup(p))

\* The scenario of closures enqueued before run(): producers only call(),
\* with closures that return or call stop(); run() starts once every call()
\* has returned and the last closure enqueued is one that calls stop().
ScnCall(p, k) ==
    /\ rpc = "idle"
    /\ CallLock(p, k)

ScnRunEnter ==
    /\ \A p \in Producers : ppc[p] = "idle"
    /\ kinds # <<>>
    /\ kinds[Len(kinds)] = "stop"
    /\ RunEnter

NextScn ==
    \/ \E p \in Producers : \E k \in {"plain", "stop"} : ScnCall(p, k)
    \/ \E p \in Producers : CallRest(p)
    \/ ScnRunEnter
    \/ LoopTop
    \/ Wait
    \/ SingleLoopReturn
    \/ DispatchWakeup
    \/ HLock
    \/ HPop
    \/ HRead
    \/ InvokePlain
    \/ InvokeStop
    \/ RWakeup

ReactorScn ==
    ScnRunEnter \/ LoopTop \/ Wait \/ SingleLoopReturn \/ DispatchWakeup
        \/ HLock \/ HPop \/ HRead \/ InvokePlain \/ InvokeStop \/ RWakeup

ScnSpec ==
    /\ Init
    /\ [][NextScn]_vars
    /\ WF_vars(ReactorScn)
    /\ \A p \in Producers : WF_vars(CallRest(p))

\* The loop with descriptors registered in the table and becoming readable.
NextReg ==
    \/ ReactorLoop
    \/ DispatchOther
    \/ \E fd \in RegFds : Register(fd)
    \/ \E fd \in RegFds : FdReadable(fd)
    \/ \E p \in Producers : \E k \in {"plain", "stop"} : CallLock(p, k)
    \/ \E p \in Producers : CallRest(p)
    \/ \E p \in Producers : StopStore(p)
    \/ \E p \in Producers : StopWakeup(p)

RegSpec == Init /\ [][NextReg]_vars

\* The loop with epoll_wait interrupted by signals.  A signal does not
\* interrupt every epoll_wait for ever: Wait is strongly fair.
NextEintr ==
    \/ ReactorLoop
    \/ NestedCall
    \/ WaitEintr
    \/ \E p \in Producers : \E k \in {"plain", "stop", "sched"} : CallLock(p, k)
    \/ \E p \in Producers : CallRest(p)
    \/ \E p \in Producers : StopStore(p)
    \/ \E p \in Producers : StopWakeup(p)

EintrSpec ==
    /\ Init
    /\ [][NextEintr]_vars
    /\ WF_vars(ReactorLoop \/ NestedCall \/ WaitEintr)
    /\ SF_vars(Wait)
    /\ \A p \in Producers : WF_vars(CallRest(p) \/ StopWakeup(p))

\* The loop with epoll_wait failing in either way.
NextFatal ==
    \/ ReactorLoop
    \/ NestedCall
    \/ WaitEintr
    \/ WaitFatal
    \/ \E p \in Producers : \E k \in {"plain", "stop", "sched"} : CallLock(p, k)
    \/ \E p \in Producers : CallRest(p)
    \/ \E p \in Producers : StopStore(p)
    \/ \E p \in Producers : StopWakeup(p)

FatalSpec == Init /\ [][NextFatal]_vars

\* new() from the start, followed, when it returned a loop, by the loop's
\* operations with closures that return or call stop().
NextNew ==
    \/ NewEpollCreate
    \/ NewEventfd
    \/ NewEpollCtl
    \/ DropWakeupFd
    \/ DropEpollFd
    \/ new_result = "ok" /\ ReactorLoop
    \/ \E p \in Producers : \E k \in {"plain", "stop"} : new_result = "ok" /\ CallLock(p, k)
    \/ \E p \in Producers : CallRest(p)
    \/ \E p \in Producers : new_result = "ok" /\ StopStore(p)
    \/ \E p \in Producers : StopWakeup(p)

NewSpec == InitNew /\ [][NextNew]_vars

-----------------------------------------------------------------------------
\* Properties.

Ids == 1..Len(kinds)
InRun == rpc \notin {"idle", "done", "panicked"}

\* C1: pending calls are invoked in exactly the order in which they were
\* appended to pending_calls (the i-th invocation is of the i-th closure
\* appended), so none is invoked twice, whichever thread appended them.
C1_FifoOnce ==
    /\ Len(executed) <= Len(kinds)
    /\ \A i \in 1..Len(executed) : executed[i] = i

\* Three closures from producers and from inside a pending call were invoked.
C1_Witness ==
    /\ Len(executed) = 3
    /\ kinds[1] = "sched"
    /\ kinds[2] # "plain"

\* C2: a closure pushed by call() while run() is active is eventually invoked
\* unless stop() is called: the wakeup() after the push makes epoll_wait
\* report the wakeup descriptor.
C2_CallEventuallyRuns ==
    \A id \in 1..MaxCalls :
        (Len(kinds) >= id /\ InRun) ~> (id \in Range(executed) \/ stop)

\* A producer has pushed and not yet written while the reactor, with nothing
\* to report, is about to call epoll_wait; an earlier call was already run.
C2_Witness ==
    /\ \E p \in Producers : ppc[p] = "call_wake"
    /\ rpc = "wait"
    /\ counter = 0
    /\ ~stop
    /\ Len(executed) >= 1
    /\ Len(pending_calls) = 1

\* C3 (as stated): once stop() was called, run() eventually returns, whatever
\* the pending calls do (counting a run() that a panicking pending call
\* unwinds as ended).
C3_StopReturns == stop ~> (rpc = "done" \/ rpc = "panicked")

TickScheduled == \E i \in Ids : kinds[i] = "tick"

\* C3 (amended): once stop() was called, run() eventually ends (it returns,
\* or unwinds with the panic of a pending call) provided no closure that
\* keeps rescheduling itself is ever scheduled.
C3_StopEndsRun ==
    stop ~> (rpc = "done" \/ rpc = "panicked" \/ TickScheduled)

\* run() returned after two stop() calls from producers and a closure's stop().
C3_Witness ==
    /\ rpc = "done"
    /\ nstops = 2
    /\ ~TickScheduled
    /\ \E i \in Range(executed) : kinds[i] = "stop"

\* C4: closures enqueued before run(), the last one calling stop(): run()
\* invokes them all, in order, once each, and returns.
C4_Scenario ==
    (rpc # "idle") ~> (rpc = "done" /\ executed = [i \in Ids |-> i])

C4_Witness ==
    /\ rpc = "done"
    /\ kinds = <<"plain", "plain", "stop">>
    /\ executed = <<1, 2, 3>>

\* C5 (as stated): when the loop observes the stop flag and run() returns,
\* every closure enqueued before that observation, by a call() that has
\* returned, has been invoked.
C5_EnqueuedBeforeExitRuns ==
    [][(rpc = "top" /\ rpc' = "done" /\ \A p \in Producers : ppc[p] = "idle")
          => \A id \in Ids : id \in Range(executed)]_vars

\* C6: stop() can be begun at every position of run(), and a stop() made when
\* the flag is already set leaves the flag set and changes neither the queue,
\* the lock, the reactor's position nor what was invoked: it only adds to the
\* wakeup counter.  After any number of stop() calls the flag is true.
ProducerStopStep(p) ==
    \/ ppc[p] = "idle" /\ ppc'[p] = "stop_wake"
    \/ ppc[p] = "stop_wake" /\ ppc'[p] = "idle"

C7_StopMonotonic ==
    /\ stop = FALSE
    /\ [][stop => stop']_vars

\* The flag is set and run() has looped, drained and returned since.
C7_Witness ==
    /\ stop
    /\ rpc = "done"
    /\ Len(executed) >= 2

\* C8 (as stated): single_loop never goes through an iteration in which
\* epoll_wait returned successfully with zero ready descriptors.
C8_NoEmptyIteration == ~(rpc = "for" /\ Len(events) = 0)

\* C9 (as stated): each reported descriptor is dispatched: the wakeup
\* descriptor to handle_wakeup_fd, any other to its handler in fd_data.
C9_Dispatch ==
    [][(rpc = "for" /\ index' = index + 1) =>
          IF events[index] = WakeupFd
          THEN rpc' = "h_lock"
          ELSE events[index] \in fd_data =>
                   on_event_calls' = Append(on_event_calls, events[index])]_vars

\* C10 (as stated): a panic of a pending call does not end run().
C10_PanicDoesNotStopReactor == rpc # "panicked"

\* C11: when a step of new() fails, new() returns that errno and no loop, and
\* by then every descriptor acquired by the earlier steps has been closed
\* exactly once and none is left open.
C11_NewFailureReleases ==
    (npc = "returned" /\ new_result # "ok") =>
        /\ new_result \in Errnos
        /\ fd_open = {}
        /\ \A fd \in {EpollFd, WakeupFd} : fd_closes[fd] <= 1
        /\ rpc = "idle"
        /\ epoll_set = {}

\* new() failed at epoll_ctl, with both descriptors acquired and then closed.
C11_Witness ==
    /\ npc = "returned"
    /\ new_result = "EMFILE"
    /\ fd_closes[EpollFd] = 1
    /\ fd_closes[WakeupFd] = 1

\* C12: an epoll_wait that fails with EINTR makes single_loop return to the
\* stop-flag check without panicking and with the queue, the lock, the wakeup
\* counter and the stop flag unchanged; every closure pushed while run() is
\* active is still invoked eventually unless stop() is called.
C12_EintrIsNoEvents ==
    /\ [][(rpc = "wait" /\ rpc' # "wait") =>
            /\ rpc' \in {"for", "top"}
            /\ rpc' = "top" => UNCHANGED <<stop, counter, pending_calls, lock, executed>>]_vars
    /\ \A id \in 1..MaxCalls :
           (Len(kinds) >= id /\ InRun) ~> (id \in Range(executed) \/ stop)

\* The loop is back at the stop-flag check with a call queued and its wakeup
\* written, after an earlier call was invoked.
C12_Witness ==
    /\ rpc = "top"
    /\ ~stop
    /\ counter > 0
    /\ Len(pending_calls) = 1
    /\ Len(executed) >= 1
    /\ events = <<>>

\* C13: a wakeup() whose write meets the counter at its maximum returns
\* normally, the counter stays at the maximum, and the next epoll_wait
\* reports the wakeup descriptor.
C13_SaturatedWakeup ==
    /\ [][\A p \in Producers :
            (counter = EventfdMax /\ ppc[p] \in {"call_wake", "stop_wake"} /\ ppc'[p] # ppc[p])
                => (ppc'[p] = "idle" /\ counter' = EventfdMax)]_vars
    /\ [][(counter = EventfdMax /\ rpc = "c_wake" /\ rpc' # rpc)
                => (rpc' = "h_lock" /\ counter' = EventfdMax)]_vars
    /\ [][(counter = EventfdMax /\ rpc = "wait" /\ rpc' = "for")
                => WakeupFd \in Range(events')]_vars

\* More wakeup() writes have returned than the counter can hold, with no
\* read in between.
C13_Witness ==
    /\ rpc = "idle"
    /\ \A p \in Producers : ppc[p] = "idle"
    /\ Len(kinds) + nstops > EventfdMax
    /\ counter = EventfdMax

\* C17: an epoll_wait failure other than EINTR ends run() by a panic: once
\* it happened the reactor takes no further step and invokes no pending call.
C17_FatalWaitError ==
    /\ [](wait_result \in FatalErrnos => rpc = "fatal")
    /\ [][rpc = "fatal" => (rpc' = "fatal" /\ executed' = executed
                              /\ UNCHANGED <<events, index, this_call, wait_result>>)]_vars

\* run() ended by a failed epoll_wait with calls still queued.
C17_Witness ==
    /\ rpc = "fatal"
    /\ wait_result = "EBADF"
    /\ Len(pending_calls) >= 1
    /\ Len(executed) >= 1

\* The reactor's positions inside handle_wakeup_fd.
InHandle == rpc \in {"h_lock", "h_pop", "h_read", "invoke", "c_lock", "c_push", "c_wake"}

\* C14: a pending call is invoked only by a step of the thread executing
\* run(), inside handle_wakeup_fd entered for an event of the wakeup
\* descriptor that epoll_wait reported; the invoked call is the one popped,
\* and no step of a producer's call() or stop() invokes anything.
C14_InvokedByReactor ==
    [][executed' # executed =>
          /\ rpc = "invoke"
          /\ executed' = Append(executed, this_call[1])
          /\ wait_result = "ok"
          /\ index > 1 /\ events[index - 1] = WakeupFd
          /\ ppc' = ppc]_vars

\* A pending call is being invoked by the reactor while a producer is inside
\* call(), between its push and its wakeup.
C14_Witness ==
    /\ rpc = "invoke"
    /\ Len(executed) >= 1
    /\ \E p \in Producers : ppc[p] = "call_wake"
    /\ pending_calls # <<>>

\* C15: the reactor does not hold the pending_calls mutex while a pending
\* call executes, and a pending call that calls call() gets the mutex and
\* comes back to handle_wakeup_fd.
C15_UnlockedDuringCall ==
    /\ [](rpc \in {"invoke", "c_lock", "c_wake"} => lock # "reactor")
    /\ (rpc = "c_lock") ~> (rpc = "h_lock")

\* A producer's call() holds the mutex while a pending call is executing.
C15_Witness ==
    /\ rpc \in {"invoke", "c_lock"}
    /\ lock \in Producers
    /\ this_call # <<>>
    /\ KindOf(this_call[1]) = "sched"

\* C16: one epoll_wait reports the wakeup descriptor at most once whatever
\* the counter; the read made when the queue is found empty sets the counter
\* to zero; and an epoll_wait made with the counter at zero does not report
\* the wakeup descriptor.
C16_CoalescedAndDrained ==
    /\ [](\A i, j \in 1..Len(events) : events[i] = events[j] => i = j)
    /\ [][(rpc = "h_read" /\ rpc' # rpc) => counter' = 0]_vars
    /\ [][(rpc = "wait" /\ rpc' = "for" /\ counter = 0) => WakeupFd \notin Range(events')]_vars

\* Two wakeup() writes are about to be consumed by the read of one report.
C16_Witness ==
    /\ rpc = "h_read"
    /\ counter = 2
    /\ events = <<WakeupFd>>
    /\ \A p \in Producers : ppc[p] = "idle"

\* C18: whenever pending_calls is not empty and the reactor is outside
\* handle_wakeup_fd, the eventfd counter is positive or a producer is between
\* its push and its wakeup() write.
C18_NoLostWakeup ==
    (pending_calls # <<>> /\ ~InHandle) =>
        (counter > 0 \/ \E p \in Producers : ppc[p] = "call_wake")

\* A call was pushed and its wakeup written after a drain pass ended, and the
\* reactor is in the loop outside handle_wakeup_fd.
C18_Witness ==
    /\ pending_calls # <<>>
    /\ rpc \in {"for", "top", "wait"}
    /\ Len(executed) >= 1
    /\ counter = 1
    /\ \A p \in Producers : ppc[p] = "idle"

\* C19: handle_wakeup_fd returns only after pop_front found the queue empty
\* with the mutex held, whatever the stop flag: when it leaves for the read,
\* every closure pushed so far was invoked.
C19_DrainUntilEmpty ==
    /\ [](rpc = "h_read" =>
            /\ pending_calls = <<>>
            /\ lock = "reactor"
            /\ \A id \in Ids : id \in Range(executed))
    /\ [][(InHandle /\ ~InHandle') => (rpc = "h_read" \/ rpc' = "panicked")]_vars

\* The first closure invoked called stop() (no producer did), and two more
\* closures were invoked before the pass ended.
C19_Witness ==
    /\ rpc = "h_read"
    /\ stop
    /\ nstops = 0
    /\ Len(executed) = 3
    /\ kinds[executed[1]] = "stop"

\* run() has returned on the stop flag, or is at its check with the flag set.
Stopped == rpc = "done" \/ (rpc = "top" /\ stop)

\* C20: run() returns only with the stop flag set, and from then on, whatever
\* call(), stop() and run() are invoked, the reactor only moves between the
\* check of the flag and the return: nothing is invoked, nothing is popped
\* and the eventfd is not read.
C20_StoppedIsTerminal ==
    /\ [](rpc = "done" => stop)
    /\ [][Stopped =>
            /\ Stopped'
            /\ executed' = executed
            /\ Len(pending_calls') >= Len(pending_calls)
            /\ SubSeq(pending_calls', 1, Len(pending_calls)) = pending_calls
            /\ counter' >= counter
            /\ events' = events]_vars

\* run() was called again after it returned, with a closure queued and its
\* wakeup written after the return.
C20_Witness ==
    /\ rpc = "top"
    /\ stop
    /\ Len(executed) = 0
    /\ Len(pending_calls) = 2
    /\ counter = EventfdMax
    /\ nstops = 1
    /\ \A p \in Producers : ppc[p] = "idle"

====
